---------------------------- MODULE Spec2Model ----------------------------
(***************************************************************************)
(* Model of the table extraction and normalization engine of               *)
(* src/src/modules/data_reception/fbref_parser.py.                         *)
(*                                                                         *)
(* A Python str is a sequence of one-character strings, so that strip,     *)
(* lower, replace and the two re.sub calls of norm are computed character  *)
(* by character.  A DataFrame is a record: its column labels, its rows     *)
(* (each a sequence of cells, NA for a missing value) and its row index.   *)
(***************************************************************************)
EXTENDS Integers, Sequences, FiniteSets, TLC

VARIABLES
    pc,         \* position in the function under execution
    df,         \* flatten_and_normalize_columns: the table being normalized
    prim,       \* flatten: normalized base labels      (line 154)
    sect_norm,  \* flatten: normalized section labels   (line 155)
    seen,       \* flatten: names already assigned      (line 158)
    names,      \* flatten: names assigned so far       (line 132)
    out,        \* flatten: the returned table
    pass,       \* 1: first application, 2: re-application to its own output
    first,      \* the table returned by the first application
    visible,    \* biggest_table: outcome of the call of line 91
    hidden,     \* biggest_table: outcome of the call of line 98
    main_df,    \* biggest_table: main_df    (lines 89-93)
    comment_df, \* biggest_table: comment_df (lines 96-100)
    result,     \* biggest_table, detect_standings_and_teamstats: the value returned
    html,       \* biggest_table: the document, its <table> elements and comment blocks
    page_tables,    \* _extract_biggest_table_from_html: soup.find_all("table")
    comment_block,  \* ..._from_html_comments: block of this iteration (line 50)
    nblocks,    \* ..._from_html_comments: comment blocks seen so far
    comment_tables, \* ..._from_html_comments: comment_tables (line 47)
    soup,       \* detect_standings_and_teamstats: the <table> elements of soup
    st_tag,     \* detect: st_tag, as a position in soup, 0 for None
    standings_df,   \* detect: standings_df
    ts_tag,     \* detect: ts_tag, as a position in soup, 0 for None
    teamstats_df    \* detect: teamstats_df

vars == <<pc, df, prim, sect_norm, seen, names, out, pass, first,
          visible, hidden, main_df, comment_df, result, html,
          page_tables, comment_block, nblocks, comment_tables,
          soup, st_tag, standings_df, ts_tag, teamstats_df>>

flattenVars == <<df, prim, sect_norm, seen, names, out, pass, first>>

selectVars == <<visible, hidden, main_df, comment_df, result, html>>
discoverVars == <<page_tables, comment_block, nblocks, comment_tables>>
detectVars == <<soup, st_tag, standings_df, ts_tag, teamstats_df>>

-----------------------------------------------------------------------------
(* Characters and Python str methods                                       *)

UpperChars == <<"A","B","C","D","E","F","G","H","I","J","K","L","M",
                "N","O","P","Q","R","S","T","U","V","W","X","Y","Z">>

LowerChars == <<"a","b","c","d","e","f","g","h","i","j","k","l","m",
                "n","o","p","q","r","s","t","u","v","w","x","y","z">>

Digits == {"0","1","2","3","4","5","6","7","8","9"}

Range(f) == {f[k] : k \in DOMAIN f}

\* the characters matched by \w
WordChars == Range(UpperChars) \cup Range(LowerChars) \cup Digits \cup {"_"}

\* the characters str.strip() removes
Whitespace == {" "}

Min(a, b) == IF a < b THEN a ELSE b

\* c.lower()
LowerChar(c) ==
    IF c \in Range(UpperChars)
    THEN LowerChars[CHOOSE k \in DOMAIN UpperChars : UpperChars[k] = c]
    ELSE c

\* s.lower()
Lower(s) == [k \in 1..Len(s) |-> LowerChar(s[k])]

RECURSIVE LStrip(_, _)
\* s.lstrip(cs)
LStrip(s, cs) ==
    IF s # <<>> /\ Head(s) \in cs THEN LStrip(Tail(s), cs) ELSE s

RECURSIVE RStrip(_, _)
\* s.rstrip(cs)
RStrip(s, cs) ==
    IF s # <<>> /\ s[Len(s)] \in cs
    THEN RStrip(SubSeq(s, 1, Len(s) - 1), cs)
    ELSE s

\* s.strip(cs)
Strip(s, cs) == RStrip(LStrip(s, cs), cs)

\* s.startswith(p)
StartsWith(s, p) == Len(s) >= Len(p) /\ SubSeq(s, 1, Len(p)) = p

\* s.endswith(p)
EndsWith(s, p) ==
    Len(s) >= Len(p) /\ SubSeq(s, Len(s) - Len(p) + 1, Len(s)) = p

\* p in s
Contains(s, p) ==
    \E k \in 0..(Len(s) - Len(p)) : SubSeq(s, k + 1, k + Len(p)) = p

RECURSIVE Replace(_, _, _)
\* s.replace(old, new): leftmost, non-overlapping occurrences
Replace(s, old, new) ==
    IF Len(s) < Len(old) THEN s
    ELSE IF StartsWith(s, old)
         THEN new \o Replace(SubSeq(s, Len(old) + 1, Len(s)), old, new)
         ELSE <<Head(s)>> \o Replace(Tail(s), old, new)

RECURSIVE SubRuns(_, _)
\* re.sub(r"[cs]+", "_", s): every maximal run of characters of cs becomes "_"
SubRuns(s, cs) ==
    IF s = <<>> THEN <<>>
    ELSE IF Head(s) \in cs
         THEN <<"_">> \o SubRuns(LStrip(s, cs), cs)
         ELSE <<Head(s)>> \o SubRuns(Tail(s), cs)


-----------------------------------------------------------------------------
(* String literals of the source                                           *)

S_unnamed     == <<"u","n","n","a","m","e","d">>
S_g_a         == <<"g","+","a">>
S_g_plus_a    == <<"g","_","p","l","u","s","_","a">>
S_g_apk       == <<"g","+","a","p","k">>
S_g_plus_a_pk == <<"g","_","p","l","u","s","_","a","_","p","k">>
S_per_90_min  == <<"p","e","r"," ","9","0"," ","m","i","n","u","t","e","s">>
S_per90       == <<"p","e","r","9","0">>
S_playing_time == <<"p","l","a","y","i","n","g","_","t","i","m","e">>
S_pt          == <<"p","t">>
S_performance == <<"p","e","r","f","o","r","m","a","n","c","e">>
S_perf        == <<"p","e","r","f">>
S_expected    == <<"e","x","p","e","c","t","e","d">>
S_exp         == <<"e","x","p">>
S_progression == <<"p","r","o","g","r","e","s","s","i","o","n">>
S_prog        == <<"p","r","o","g">>
S_sec         == <<"s","e","c">>

\* every character that occurs in a label of the model
AllChars == WordChars \cup {" ", "+", ":"}

-----------------------------------------------------------------------------
(* flatten_and_normalize_columns                                           *)

\* norm without line 129's collapse of repeated underscores
normNoCollapse(s) ==
    LET s1 == Lower(Strip(s, Whitespace))
        s2 == Replace(Replace(s1, S_g_a, S_g_plus_a), S_g_apk, S_g_plus_a_pk)
        s3 == Replace(s2, S_per_90_min, S_per90)
    IN  Strip(SubRuns(s3, AllChars \ WordChars), {"_"})

\* norm, the token rule (lines 123-130)
norm(s) ==
    LET s1 == Lower(Strip(s, Whitespace))
        s2 == Replace(Replace(s1, S_g_a, S_g_plus_a), S_g_apk, S_g_plus_a_pk)
        s3 == Replace(s2, S_per_90_min, S_per90)
        s4 == SubRuns(s3, AllChars \ WordChars)
    IN  Strip(SubRuns(s4, {"_"}), {"_"})

\* the test of lines 142 and 148: a part that is a real label, neither empty,
\* blank nor an "unnamed" placeholder
IsRealLabel(x) ==
    /\ x # <<>>
    /\ Strip(x, Whitespace) # <<>>
    /\ ~StartsWith(Lower(x), S_unnamed)

\* lines 140-144: the last real part of the column tuple, "" when none
BaseLabel(parts) ==
    LET real == {k \in DOMAIN parts : IsRealLabel(parts[k])}
    IN  IF real = {} THEN <<>>
        ELSE parts[CHOOSE k \in real : \A j \in real : j <= k]

\* lines 146-150: the first real part of the column tuple, "" when none
SectLabel(parts) ==
    LET real == {k \in DOMAIN parts : IsRealLabel(parts[k])}
    IN  IF real = {} THEN <<>>
        ELSE parts[CHOOSE k \in real : \A j \in real : k <= j]

\* Candidate testing "per" in sname
CandidateAnyPer(pname, sname) ==
    IF Contains(sname, <<"p","e","r">>) THEN pname \o <<"_">> \o S_per90 ELSE pname

\* lines 160-162
Candidate(pname, sname) ==
    IF Contains(sname, S_per90) THEN pname \o <<"_">> \o S_per90 ELSE pname

\* lines 164-170
tag_map ==
    [s \in {S_playing_time, S_performance, S_expected, S_progression, S_per90} |->
        CASE s = S_playing_time -> S_pt
          [] s = S_performance  -> S_perf
          [] s = S_expected     -> S_exp
          [] s = S_progression  -> S_prog
          [] s = S_per90        -> S_per90]

\* Tag without the lookup in tag_map
TagFirstSix(sname) ==
    LET cut == SubSeq(sname, 1, Min(6, Len(sname)))
    IN  IF cut # <<>> THEN cut ELSE S_sec

\* line 171: tag_map.get(sname, sname[:6] or "sec")
Tag(sname) ==
    LET cut == SubSeq(sname, 1, Min(6, Len(sname)))
    IN  IF sname \in DOMAIN tag_map THEN tag_map[sname]
        ELSE IF cut # <<>> THEN cut ELSE S_sec

\* collision resolution that checks the disambiguated name against the
\* assigned names too, and extends it until it is free
ResolveNameChecked(pname, sname, assigned) ==
    LET cand == Candidate(pname, sname)
        dis  == pname \o <<"_">> \o Tag(sname)
    IN  IF cand \notin assigned THEN cand
        ELSE IF dis \notin assigned THEN dis
        ELSE dis \o <<"_">> \o Tag(sname)

\* lines 160-172: the name given to a column when `assigned` are the names
\* given to the columns on its left
ResolveName(pname, sname, assigned) ==
    IF Candidate(pname, sname) \in assigned
    THEN pname \o <<"_">> \o Tag(sname)
    ELSE Candidate(pname, sname)

\* no column is dropped
KeptColumnsAll(cols) == DOMAIN cols

\* ~df.columns.duplicated() (line 180): the positions that keep their column
KeptColumns(cols) ==
    {k \in DOMAIN cols : \A j \in 1..(k - 1) : cols[j] # cols[k]}

RECURSIVE Pick(_, _)
\* the elements of s at the positions of `keep`, in order
Pick(s, keep) ==
    IF s = <<>> THEN <<>>
    ELSE LET front == SubSeq(s, 1, Len(s) - 1)
         IN  IF Len(s) \in keep
             THEN Append(Pick(front, keep), s[Len(s)])
             ELSE Pick(front, keep)

\* OneLevelNames keeping one name of each, as list(dict.fromkeys(...)) would
OneLevelNamesUnique(cols) ==
    LET all == [k \in DOMAIN cols |-> norm(cols[k])]
    IN  Pick(all, {k \in DOMAIN all : \A j \in 1..(k - 1) : all[j] # all[k]})

\* line 178: [norm(str(c)) for c in df.columns]
OneLevelNames(cols) == [k \in DOMAIN cols |-> norm(cols[k])]

\* a missing cell
NA == <<>>

\* KeptRows as dropna(how="any") would have it
KeptRowsAny(data) ==
    {r \in DOMAIN data : \A c \in DOMAIN data[r] : data[r][c] # NA}

\* dropna(how="all") (line 180): the rows that keep their place
KeptRows(data) ==
    {r \in DOMAIN data : \E c \in DOMAIN data[r] : data[r][c] # NA}

\* Finish dropping the all-empty rows before the duplicated columns
FinishRowsFirst(cols, data) ==
    LET keep == KeptColumns(cols)
        full == Pick(data, KeptRows(data))
        rows == [r \in DOMAIN full |-> Pick(full[r], keep)]
    IN  [multi   |-> FALSE,
         columns |-> Pick(cols, keep),
         data    |-> rows,
         index   |-> [r \in DOMAIN rows |-> r - 1]]

\* line 180: drop the duplicated columns, then the all-empty rows, then
\* renumber the rows from 0
Finish(cols, data) ==
    LET keep == KeptColumns(cols)
        cut  == [r \in DOMAIN data |-> Pick(data[r], keep)]
        rows == Pick(cut, KeptRows(cut))
    IN  [multi   |-> FALSE,
         columns |-> Pick(cols, keep),
         data    |-> rows,
         index   |-> [r \in DOMAIN rows |-> r - 1]]

-----------------------------------------------------------------------------
(* Input tables                                                            *)

\* most columns of an input table
MaxCols == 3

L_Unnamed     == <<"U","n","n","a","m","e","d",":"," ","0">>
L_Blank       == <<" ">>
L_Performance == <<"P","e","r","f","o","r","m","a","n","c","e">>
L_Per90       == <<"P","e","r"," ","9","0"," ","M","i","n","u","t","e","s">>
L_Per90xG     == <<"P","e","r"," ","9","0"," ","M","i","n","u","t","e","s"," ","x","G">>
L_TotalStats  == <<"T","o","t","a","l"," ","S","t","a","t","s">>
L_Gls         == <<"G","l","s">>
L_GlsPer90    == <<"G","l","s"," ","P","e","r","9","0">>
L_Team        == <<" "," ","T","e","a","m"," "," ">>
L_team        == <<"t","e","a","m">>
L_TeamName    == <<"T","e","a","m","_","_","_","N","a","m","e">>
L_GA          == <<"G","+","A">>
L_GAPK        == <<"G","+","a","P","K">>

\* outer (section) labels of a two-level header
OuterLabels ==
    {L_Unnamed, L_Performance, L_Per90, L_Per90xG, L_TotalStats}

\* inner labels of a two-level header
InnerLabels == {L_Gls, L_GlsPer90, <<>>}

\* the column tuples of a two-level header (pd.MultiIndex)
TwoLevelColumns == {<<o, i>> : o \in OuterLabels, i \in InnerLabels}

\* the column labels of a single-level header
OneLevelColumns ==
    {L_Team, L_team, L_TeamName, L_GA, L_GAPK, L_Per90, L_Blank}

\* longest label of the one-column tables whose label is drawn from every
\* string over ShortChars
MaxLabelLen == 4

ShortChars == {"G", "a", "+", " ", "_"}

ShortLabels == UNION {[1..n -> ShortChars] : n \in 0..MaxLabelLen}

\* the rows of an input table of n columns, one of each kind that line 180
\* can treat differently: a row with every cell missing,
\* for each column a row whose only value is in that column, and a full row;
\* the value of a cell names the input row and column it comes from
InputData(n) ==
    [r \in 1..(n + 2) |->
        [c \in 1..n |-> IF r = n + 2 \/ r = c + 1 THEN <<r, c>> ELSE NA]]

\* the DataFrame of the given header; its index is not the default one
Table(multi, cols) ==
    [multi   |-> multi,
     columns |-> cols,
     data    |-> InputData(Len(cols)),
     index   |-> [r \in 1..(Len(cols) + 2) |-> 5 * r]]

\* the headers of the input tables: two-level ones and single-level ones
\* (the empty table, pd.DataFrame(), has a single-level header)
TwoLevelHeaders == UNION {[1..n -> TwoLevelColumns] : n \in 1..MaxCols}

OneLevelHeaders ==
    UNION {[1..n -> OneLevelColumns] : n \in 0..MaxCols}
    \cup {<<l>> : l \in ShortLabels}

\* no table (None)
None == [none |-> TRUE]

\* an exception raised by a call
Raised == [raised |-> TRUE]

\* pd.DataFrame(): no columns, no rows
EmptyTable == [multi |-> FALSE, columns |-> <<>>, data |-> <<>>, index |-> <<>>]

-----------------------------------------------------------------------------
(* Input tables with every pattern of missing cells                        *)

\* most columns and most rows of these tables
MaxRowCols == 2
MaxRows == 2

\* the column tuples of their two-level headers and the labels of their
\* single-level headers; both can give two columns the same name
RowTwoLevelColumns == {<<L_Performance, L_Gls>>, <<L_Per90, L_Gls>>}

RowOneLevelColumns == {L_Team, L_team, L_GA}

\* most columns of the two-level headers whose sections cover tag_map
MaxTagCols == 3

L_PlayingTime == <<"P","l","a","y","i","n","g"," ","T","i","m","e">>
L_Expected    == <<"E","x","p","e","c","t","e","d">>
L_Progression == <<"P","r","o","g","r","e","s","s","i","o","n">>
L_GlsPerf     == <<"G","l","s"," ","P","e","r","f">>

\* one base label under each section of tag_map and under a section outside
\* it, and columns without an outer label: one whose label is the name a
\* collision under Performance gives, and one without any label
TagColumns ==
    {<<o, L_Gls>> : o \in {L_PlayingTime, L_Performance, L_Expected,
                           L_Progression, L_Per90, L_TotalStats, L_Unnamed}}
    \cup {<<L_Unnamed, L_GlsPerf>>, <<L_Unnamed, <<>>>>}

\* the DataFrame of the given header and m rows, whose cell (r, c) has a
\* value exactly when filled[r][c]; the value names the input row and column
RowsTable(multi, cols, m, filled) ==
    [multi   |-> multi,
     columns |-> cols,
     data    |-> [r \in 1..m |->
                    [c \in 1..Len(cols) |-> IF filled[r][c] THEN <<r, c>> ELSE NA]],
     index   |-> [r \in 1..m |-> 5 * r]]

\* the locals of a function that is not being called
FlattenIdle ==
    /\ df = None
    /\ prim = <<>>
    /\ sect_norm = <<>>
    /\ seen = {}
    /\ names = <<>>
    /\ out = None
    /\ pass = 1
    /\ first = None

SelectIdle ==
    /\ visible = None
    /\ hidden = None
    /\ main_df = None
    /\ comment_df = None
    /\ result = None
    /\ html = None

DiscoverIdle ==
    /\ page_tables = <<>>
    /\ comment_block = None
    /\ nblocks = 0
    /\ comment_tables = <<>>

DetectIdle ==
    /\ soup = <<>>
    /\ st_tag = 0
    /\ standings_df = None
    /\ ts_tag = 0
    /\ teamstats_df = None

-----------------------------------------------------------------------------
(* flatten_and_normalize_columns, statement by statement                   *)

\* lines 121-155 (two-level header) or 121-132 and 178 (single-level header)
FlattenStart ==
    /\ pc = "start"
    /\ IF df.multi
       THEN /\ prim' = [k \in DOMAIN df.columns |-> norm(BaseLabel(df.columns[k]))]
            /\ sect_norm' = [k \in DOMAIN df.columns |-> norm(SectLabel(df.columns[k]))]
            /\ names' = <<>>
            /\ pc' = "loop"
       ELSE /\ names' = OneLevelNames(df.columns)
            /\ pc' = "finish"
            /\ UNCHANGED <<prim, sect_norm>>
    /\ seen' = {}
    /\ UNCHANGED <<df, out, pass, first>>
    /\ UNCHANGED <<selectVars, discoverVars, detectVars>>

\* lines 159-174: one iteration of the collision-resolution loop
FlattenStep ==
    /\ pc = "loop"
    /\ Len(names) < Len(prim)
    /\ LET i == Len(names) + 1
           candidate == ResolveName(prim[i], sect_norm[i], seen)
       IN  /\ seen' = seen \cup {candidate}
           /\ names' = Append(names, candidate)
           /\ pc' = IF i = Len(prim) THEN "finish" ELSE "loop"
    /\ UNCHANGED <<df, prim, sect_norm, out, pass, first>>
    /\ UNCHANGED <<selectVars, discoverVars, detectVars>>

\* lines 176-181; the assignment df.columns = names (lines 176, 178) raises
\* ValueError when there are not as many names as columns
FlattenFinish ==
    /\ pc = "finish"
    /\ IF Len(names) # Len(df.columns)
       THEN out' = Raised /\ pc' = "raised"
       ELSE out' = Finish(names, df.data) /\ pc' = "done"
    /\ UNCHANGED <<df, prim, sect_norm, seen, names, pass, first>>
    /\ UNCHANGED <<selectVars, discoverVars, detectVars>>

\* flatten_and_normalize_columns is called again, on the table it returned
Reapply ==
    /\ pc = "done"
    /\ pass = 1
    /\ df' = out
    /\ first' = out
    /\ pass' = 2
    /\ pc' = "start"
    /\ prim' = <<>>
    /\ sect_norm' = <<>>
    /\ seen' = {}
    /\ names' = <<>>
    /\ out' = None
    /\ UNCHANGED <<selectVars, discoverVars, detectVars>>

InitFlatten ==
    /\ \/ \E h \in TwoLevelHeaders : df = Table(TRUE, h)
       \/ \E h \in OneLevelHeaders : df = Table(FALSE, h)
       \/ df = EmptyTable
    /\ pc = "start"
    /\ prim = <<>>
    /\ sect_norm = <<>>
    /\ seen = {}
    /\ names = <<>>
    /\ out = None
    /\ pass = 1
    /\ first = None
    /\ SelectIdle
    /\ DiscoverIdle
    /\ DetectIdle

NextFlatten == FlattenStart \/ FlattenStep \/ FlattenFinish \/ Reapply

SpecFlatten == InitFlatten /\ [][NextFlatten]_vars

\* one application to a table with any pattern of missing cells
InitRows ==
    /\ \E multi \in BOOLEAN, n \in 0..MaxRowCols, m \in 0..MaxRows :
          \E cols \in [1..n -> IF multi THEN RowTwoLevelColumns ELSE RowOneLevelColumns],
             filled \in [1..m -> [1..n -> BOOLEAN]] :
              /\ multi => n > 0
              /\ df = RowsTable(multi, cols, m, filled)
    /\ pc = "start"
    /\ prim = <<>>
    /\ sect_norm = <<>>
    /\ seen = {}
    /\ names = <<>>
    /\ out = None
    /\ pass = 1
    /\ first = None
    /\ SelectIdle
    /\ DiscoverIdle
    /\ DetectIdle

NextRows == FlattenStart \/ FlattenStep \/ FlattenFinish

SpecRows == InitRows /\ [][NextRows]_vars

\* one application to a two-level header whose sections cover tag_map
InitTags ==
    /\ \E n \in 1..MaxTagCols : \E h \in [1..n -> TagColumns] : df = Table(TRUE, h)
    /\ pc = "start"
    /\ prim = <<>>
    /\ sect_norm = <<>>
    /\ seen = {}
    /\ names = <<>>
    /\ out = None
    /\ pass = 1
    /\ first = None
    /\ SelectIdle
    /\ DiscoverIdle
    /\ DetectIdle

NextTags == FlattenStart \/ FlattenStep \/ FlattenFinish

SpecTags == InitTags /\ [][NextTags]_vars

-----------------------------------------------------------------------------
(* Documents                                                               *)

\* most <table> elements outside comments
MaxTables == 2

\* most <!-- ... --> blocks of a document
MaxBlocks == 1

\* most <table> elements inside one comment block
MaxBlockTables == 1

\* line 107: a visible table of fewer rows is "suspiciously small"
SmallTable == 100

\* row counts and column counts of the parsed <table> elements
RowCounts == {0, 1, SmallTable - 1, SmallTable, SmallTable + 1}

Widths == {1, 2}

\* a <table> element: whether pd.read_html parses it and, if so, the shape of
\* the DataFrame it gives, the number of its rows that are empty in every
\* surviving column (the rows flatten_and_normalize_columns drops) and the
\* number of its columns whose name repeats an earlier one (the columns it
\* drops)
TableElems ==
    {[parses |-> FALSE, rows |-> 0, cols |-> 0, blank |-> 0, dup |-> 0]}
    \cup {[parses |-> TRUE, rows |-> r, cols |-> c, blank |-> 0, dup |-> 0] :
             r \in RowCounts, c \in Widths}
    \cup {[parses |-> TRUE, rows |-> 1, cols |-> c, blank |-> 1, dup |-> 0] : c \in Widths}

TableLists(n) == UNION {[1..k -> TableElems] : k \in 0..n}

\* the text of a comment block as far as line 51 reads it: no table markup,
\* or a table tag written in lowercase or in uppercase
M_p     == <<"<","p",">">>
M_table == <<"<","t","a","b","l","e",">">>
M_TABLE == <<"<","T","A","B","L","E",">">>
S_table == <<"<","t","a","b","l","e">>

\* a comment block: its text, whether parsing it raises, and its <table>
\* elements (none without table markup)
CommentBlocks ==
    {[markup |-> M_p, broken |-> FALSE, tables |-> <<>>]}
    \cup {[markup |-> M_table, broken |-> b, tables |-> t] :
             b \in BOOLEAN, t \in TableLists(MaxBlockTables)}

BlockLists == UNION {[1..k -> CommentBlocks] : k \in 0..MaxBlocks}

\* pd.DataFrame()
EmptyFrame == [rows |-> 0, cols |-> 0, at |-> <<>>]

-----------------------------------------------------------------------------
(* _extract_biggest_table_from_html and ..._from_html_comments             *)

\* line 25: the shape of flatten_and_normalize_columns(df) for the element at
\* place `at` of the document (block number, 0 outside comments; position)
Normalized(e, at) ==
    [rows |-> e.rows - e.blank, cols |-> e.cols - e.dup, at |-> at]

RECURSIVE CandidatesUntilFailure(_, _, _)
\* Candidates when an element that pd.read_html rejects ends the scan (break
\* for continue at line 23)
CandidatesUntilFailure(tables, b, k) ==
    IF k = 0 THEN <<>>
    ELSE IF \E j \in 1..k : ~tables[j].parses
         THEN CandidatesUntilFailure(tables, b,
                  (CHOOSE j \in 1..k : ~tables[j].parses
                                       /\ \A i \in 1..(j - 1) : tables[i].parses) - 1)
         ELSE IF tables[k].rows # 0
              THEN Append(CandidatesUntilFailure(tables, b, k - 1),
                          Normalized(tables[k], <<b, k>>))
              ELSE CandidatesUntilFailure(tables, b, k - 1)

RECURSIVE Candidates(_, _, _)
\* lines 18-26: the candidates among the first k elements of `tables`
Candidates(tables, b, k) ==
    IF k = 0 THEN <<>>
    ELSE IF tables[k].parses /\ tables[k].rows # 0
         THEN Append(Candidates(tables, b, k - 1), Normalized(tables[k], <<b, k>>))
         ELSE Candidates(tables, b, k - 1)

\* KeyLess with the column count compared first
KeyLessColsFirst(x, y) == x.cols < y.cols \/ (x.cols = y.cols /\ x.rows < y.rows)

\* the sort key of lines 31 and 63
KeyLess(x, y) == x.rows < y.rows \/ (x.rows = y.rows /\ x.cols < y.cols)

\* Largest taking the last of the entries with the greatest key
LargestLast(q) ==
    q[CHOOSE k \in DOMAIN q :
        \A j \in DOMAIN q : IF j > k THEN KeyLess(q[j], q[k]) ELSE ~KeyLess(q[k], q[j])]

\* lines 31-32 and 63-64: the head of the list after a stable sort in
\* descending key order
Largest(q) ==
    q[CHOOSE k \in DOMAIN q :
        \A j \in DOMAIN q : IF j < k THEN KeyLess(q[j], q[k]) ELSE ~KeyLess(q[k], q[j])]

\* _extract_biggest_table_from_html (lines 16-32) on the elements of block b
ExtractFromHtml(tables, b) ==
    LET candidates == Candidates(tables, b, Len(tables))
    IN  IF candidates = <<>> THEN None ELSE Largest(candidates)

\* the texts of comment blocks, and those that pass the test of line 51,
\* "<table" in block.lower()
Markups == {M_p, M_table, M_TABLE}

WithTableMarkup == {m \in Markups : Contains(Lower(m), S_table)}

\* HasTableMarkup without the .lower() of line 51
HasTableMarkupCased(b) == Contains(b.markup, S_table)

\* line 51: "<table" in block.lower()
HasTableMarkup(b) == b.markup \in WithTableMarkup

\* lines 53-56: the largest table of comment block b, the k-th of the
\* document, None when parsing the block raises
BlockTable(b, k) == IF b.broken THEN None ELSE ExtractFromHtml(b.tables, k)

\* lines 50-58: one iteration of the loop over the comment blocks
CollectBlock(collected, b, k) ==
    LET t == IF HasTableMarkup(b) THEN BlockTable(b, k) ELSE None
    IN  IF t # None /\ t.rows # 0 THEN Append(collected, t) ELSE collected

RECURSIVE CommentTables(_, _)
\* lines 46-58: the tables collected from the first k comment blocks
CommentTables(blocks, k) ==
    IF k = 0 THEN <<>>
    ELSE CollectBlock(CommentTables(blocks, k - 1), blocks[k], k)

\* lines 60-64
LargestOrNone(collected) ==
    IF collected = <<>> THEN None ELSE Largest(collected)

\* _extract_biggest_table_from_html_comments (lines 46-64)
ExtractFromHtmlComments(blocks) ==
    LargestOrNone(CommentTables(blocks, Len(blocks)))

-----------------------------------------------------------------------------
(* The two discovery passes on their own                                   *)

\* most <table> elements of the page and of one comment block, and most
\* comment blocks
MaxDiscoverTables == 2
MaxDiscoverBlocks == 2

\* the <table> elements of a comment block: one that pd.read_html rejects,
\* one whose only row is empty in every column, and three of different shape
BlockElems ==
    {[parses |-> FALSE, rows |-> 0, cols |-> 0, blank |-> 0, dup |-> 0],
     [parses |-> TRUE,  rows |-> 1, cols |-> 1, blank |-> 1, dup |-> 0],
     [parses |-> TRUE,  rows |-> 1, cols |-> 1, blank |-> 0, dup |-> 0],
     [parses |-> TRUE,  rows |-> 1, cols |-> 2, blank |-> 0, dup |-> 0],
     [parses |-> TRUE,  rows |-> 2, cols |-> 1, blank |-> 0, dup |-> 0]}

\* the <table> elements of the page: those, one that parses to a table
\* without rows, and one that loses a row when it is normalized
PageElems ==
    BlockElems
    \cup {[parses |-> TRUE, rows |-> 0, cols |-> 2, blank |-> 0, dup |-> 0],
          [parses |-> TRUE, rows |-> 2, cols |-> 2, blank |-> 1, dup |-> 0]}

PageTables == UNION {[1..k -> PageElems] : k \in 0..MaxDiscoverTables}

\* the comment blocks re.finditer can yield
DiscoverBlocks ==
    {[markup |-> M_p, broken |-> FALSE, tables |-> <<>>],
     [markup |-> M_table, broken |-> TRUE, tables |-> <<>>]}
    \cup {[markup |-> m, broken |-> FALSE, tables |-> t] :
             m \in {M_table, M_TABLE},
             t \in UNION {[1..k -> BlockElems] : k \in 0..MaxDiscoverTables}}

\* _extract_biggest_table_from_html (lines 16-32)
ExtractVisible ==
    /\ pc = "ex_start"
    /\ visible' = ExtractFromHtml(page_tables, 0)
    /\ pc' = "ex_done"
    /\ UNCHANGED <<hidden, main_df, comment_df, result, html>>
    /\ UNCHANGED <<flattenVars, discoverVars, detectVars>>

\* lines 49-58: the next comment block of the document is examined
CommentsBlock ==
    /\ pc = "hc_loop"
    /\ nblocks < MaxDiscoverBlocks
    /\ \E b \in DiscoverBlocks :
          /\ comment_block' = b
          /\ comment_tables' = CollectBlock(comment_tables, b, nblocks + 1)
    /\ nblocks' = nblocks + 1
    /\ UNCHANGED <<pc, page_tables>>
    /\ UNCHANGED <<flattenVars, selectVars, detectVars>>

\* lines 60-64: there is no further comment block
CommentsReturn ==
    /\ pc = "hc_loop"
    /\ hidden' = LargestOrNone(comment_tables)
    /\ pc' = "hc_done"
    /\ UNCHANGED <<visible, main_df, comment_df, result, html>>
    /\ UNCHANGED <<flattenVars, discoverVars, detectVars>>

\* a call of _extract_biggest_table_from_html on a page, or a call of
\* _extract_biggest_table_from_html_comments
InitDiscover ==
    /\ \/ pc = "ex_start" /\ page_tables \in PageTables
       \/ pc = "hc_loop" /\ page_tables = <<>>
    /\ comment_block = None
    /\ nblocks = 0
    /\ comment_tables = <<>>
    /\ FlattenIdle
    /\ SelectIdle
    /\ DetectIdle

NextDiscover == ExtractVisible \/ CommentsBlock \/ CommentsReturn

SpecDiscover == InitDiscover /\ [][NextDiscover]_vars

-----------------------------------------------------------------------------
(* biggest_table                                                           *)

\* Catch without its except clause
CatchNothing(outcome) == outcome

\* the try/except of lines 90-93 and 97-100
Catch(outcome) == IF outcome = Raised THEN None ELSE outcome

\* Select with the threshold test off by one below: main.rows < SmallTable - 1
SelectBelow(main, comment) ==
    IF (main = None \/ main.rows = 0) /\ comment # None /\ comment.rows # 0
    THEN comment
    ELSE IF /\ main # None /\ main.rows # 0 /\ main.rows < SmallTable - 1
            /\ comment # None /\ comment.rows > main.rows
         THEN comment
         ELSE IF main # None /\ main.rows # 0 THEN main ELSE EmptyFrame

\* Select with the threshold test off by one above: main.rows <= SmallTable
SelectUpTo(main, comment) ==
    IF (main = None \/ main.rows = 0) /\ comment # None /\ comment.rows # 0
    THEN comment
    ELSE IF /\ main # None /\ main.rows # 0 /\ main.rows <= SmallTable
            /\ comment # None /\ comment.rows > main.rows
         THEN comment
         ELSE IF main # None /\ main.rows # 0 THEN main ELSE EmptyFrame

\* Select whose first case tests only main is None, not len(main) == 0
SelectNoneOnly(main, comment) ==
    IF main = None /\ comment # None /\ comment.rows # 0
    THEN comment
    ELSE IF /\ main # None /\ main.rows # 0 /\ main.rows < SmallTable
            /\ comment # None /\ comment.rows > main.rows
         THEN comment
         ELSE IF main # None /\ main.rows # 0 THEN main ELSE EmptyFrame

\* lines 102-116
Select(main, comment) ==
    IF (main = None \/ main.rows = 0) /\ comment # None /\ comment.rows # 0
    THEN comment
    ELSE IF /\ main # None /\ main.rows # 0 /\ main.rows < SmallTable
            /\ comment # None /\ comment.rows > main.rows
         THEN comment
         ELSE IF main # None /\ main.rows # 0 THEN main ELSE EmptyFrame

\* lines 88-93: visible discovery, on a document whose markup may make
\* BeautifulSoup raise
BiggestTableVisible ==
    /\ pc = "bt_start"
    /\ \E broken \in BOOLEAN, tables \in TableLists(MaxTables) :
          visible' = IF broken THEN Raised ELSE ExtractFromHtml(tables, 0)
    /\ main_df' = Catch(visible')
    /\ pc' = IF main_df' = Raised THEN "bt_raised" ELSE "bt_comments"
    /\ UNCHANGED <<hidden, comment_df, result, html>>
    /\ UNCHANGED <<flattenVars, discoverVars, detectVars>>

\* lines 95-100: hidden recovery
BiggestTableComments ==
    /\ pc = "bt_comments"
    /\ \E broken \in BOOLEAN, blocks \in BlockLists :
          hidden' = IF broken THEN Raised ELSE ExtractFromHtmlComments(blocks)
    /\ comment_df' = Catch(hidden')
    /\ pc' = IF comment_df' = Raised THEN "bt_raised" ELSE "bt_select"
    /\ UNCHANGED <<visible, main_df, result, html>>
    /\ UNCHANGED <<flattenVars, discoverVars, detectVars>>

\* lines 102-116: the selection policy
BiggestTableSelect ==
    /\ pc = "bt_select"
    /\ result' = Select(main_df, comment_df)
    /\ pc' = "bt_done"
    /\ UNCHANGED <<visible, hidden, main_df, comment_df, html>>
    /\ UNCHANGED <<flattenVars, discoverVars, detectVars>>

InitSelect ==
    /\ pc = "bt_start"
    /\ FlattenIdle
    /\ SelectIdle
    /\ DiscoverIdle
    /\ DetectIdle

NextSelect == BiggestTableVisible \/ BiggestTableComments \/ BiggestTableSelect

SpecSelect == InitSelect /\ [][NextSelect]_vars

\* most <table> elements of the page and most comment blocks of a document
\* given to biggest_table as a whole
MaxPipeTables == 2
MaxPipeBlocks == 1

\* the <table> elements of such a page: one that pd.read_html rejects, tables
\* that flatten_and_normalize_columns leaves as they are, and tables that
\* lose a row, their only row, or a column to it
PipeElems ==
    {[parses |-> FALSE, rows |-> 0, cols |-> 0, blank |-> 0, dup |-> 0],
     [parses |-> TRUE,  rows |-> 1, cols |-> 2, blank |-> 0, dup |-> 0],
     [parses |-> TRUE,  rows |-> 1, cols |-> 2, blank |-> 0, dup |-> 1],
     [parses |-> TRUE,  rows |-> 2, cols |-> 1, blank |-> 1, dup |-> 0],
     [parses |-> TRUE,  rows |-> 1, cols |-> 1, blank |-> 1, dup |-> 0],
     [parses |-> TRUE,  rows |-> SmallTable, cols |-> 1, blank |-> 1, dup |-> 0]}

\* the <table> elements of its comment blocks
PipeBlockElems ==
    {[parses |-> TRUE, rows |-> 1, cols |-> 1, blank |-> 0, dup |-> 0],
     [parses |-> TRUE, rows |-> 2, cols |-> 1, blank |-> 1, dup |-> 0],
     [parses |-> TRUE, rows |-> 2, cols |-> 2, blank |-> 0, dup |-> 1],
     [parses |-> TRUE, rows |-> SmallTable, cols |-> 1, blank |-> 0, dup |-> 0]}

\* its comment blocks: one without table markup, one whose parsing raises,
\* and blocks of up to MaxBlockTables tables
PipeBlocks ==
    {[markup |-> M_p, broken |-> FALSE, tables |-> <<>>],
     [markup |-> M_table, broken |-> TRUE, tables |-> <<>>]}
    \cup {[markup |-> M_TABLE, broken |-> FALSE, tables |-> t] :
             t \in UNION {[1..k -> PipeBlockElems] : k \in 0..MaxBlockTables}}

\* the documents: the <table> elements outside comments and the comment
\* blocks, in document order
Documents ==
    {[tables |-> t, blocks |-> b] :
        t \in UNION {[1..k -> PipeElems] : k \in 0..MaxPipeTables},
        b \in UNION {[1..k -> PipeBlocks] : k \in 0..MaxPipeBlocks}}

\* lines 88-93 on the document html
BiggestTableMain ==
    /\ pc = "bt_html"
    /\ visible' = ExtractFromHtml(html.tables, 0)
    /\ main_df' = Catch(visible')
    /\ pc' = "bt_html_comments"
    /\ UNCHANGED <<hidden, comment_df, result, html>>
    /\ UNCHANGED <<flattenVars, discoverVars, detectVars>>

\* lines 95-100 on the document html
BiggestTableHidden ==
    /\ pc = "bt_html_comments"
    /\ hidden' = ExtractFromHtmlComments(html.blocks)
    /\ comment_df' = Catch(hidden')
    /\ pc' = "bt_select"
    /\ UNCHANGED <<visible, main_df, result, html>>
    /\ UNCHANGED <<flattenVars, discoverVars, detectVars>>

\* biggest_table(html) is called
InitPipeline ==
    /\ pc = "bt_html"
    /\ html \in Documents
    /\ visible = None
    /\ hidden = None
    /\ main_df = None
    /\ comment_df = None
    /\ result = None
    /\ FlattenIdle
    /\ DiscoverIdle
    /\ DetectIdle

NextPipeline == BiggestTableMain \/ BiggestTableHidden \/ BiggestTableSelect

SpecPipeline == InitPipeline /\ [][NextPipeline]_vars

-----------------------------------------------------------------------------
(* detect_standings_and_teamstats                                          *)

S_standings == <<"s","t","a","n","d","i","n","g","s">>
S_w      == <<"w">>
S_d      == <<"d">>
S_l      == <<"l">>
S_pts    == <<"p","t","s">>
S_points == <<"p","o","i","n","t","s">>
S_sh     == <<"s","h">>
S_sot    == <<"s","o","t">>
S_xg     == <<"x","g">>
S_xga    == <<"x","g","a">>
S_g      == <<"g">>
S_ast    == <<"a","s","t">>
S_cmp    == <<"c","m","p">>
S_att    == <<"a","t","t">>
S_tkl    == <<"t","k","l">>
S_int    == <<"i","n","t">>

\* line 212
ts_ids ==
    << <<"s","t","a","t","s","_","s","q","u","a","d","s","_",
         "s","t","a","n","d","a","r","d","_","f","o","r">>,
       <<"s","t","a","t","s","_","s","q","u","a","d","s","_",
         "s","t","a","n","d","a","r","d">> >>

\* line 219
keys == {S_sh, S_sot, S_xg, S_xga, S_g, S_ast, S_cmp, S_att, S_tkl, S_int}

\* lines 203 and 222: the texts of the thead th cells of table t, stripped
\* and lowercased
Headers(t) == [k \in DOMAIN t.thead |-> Lower(Strip(t.thead[k], Whitespace))]

\* HasStandingsId without the .lower() of line 200
HasStandingsIdCased(t) == t.id # <<>> /\ Contains(t.id, S_standings)

\* line 200: lambda x: x and "standings" in x.lower()
HasStandingsId(t) == t.id # <<>> /\ Contains(Lower(t.id), S_standings)

\* line 204
StandingsLike(t) ==
    /\ {S_w, S_d, S_l} \subseteq Range(Headers(t))
    /\ S_pts \in Range(Headers(t)) \/ S_points \in Range(Headers(t))

\* soup.find and the loops that break at the first match: the least
\* position of the set, 0 (None) when it is empty
FirstOf(positions) ==
    IF positions = {} THEN 0
    ELSE CHOOSE k \in positions : \A j \in positions : k <= j

\* lines 200-206: st_tag
FindStandings(elems) ==
    IF FirstOf({k \in DOMAIN elems : HasStandingsId(elems[k])}) # 0
    THEN FirstOf({k \in DOMAIN elems : HasStandingsId(elems[k])})
    ELSE FirstOf({k \in DOMAIN elems : StandingsLike(elems[k])})

\* MetricsLike asking for two key metrics only
MetricsLikeTwo(t) ==
    /\ Cardinality(Range(Headers(t)) \cap keys) >= 2
    /\ ~({S_w, S_d, S_l} \subseteq Range(Headers(t)))

\* MetricsLike without the exclusion of the tables with w, d and l
MetricsLikeAnyTable(t) ==
    Cardinality(Range(Headers(t)) \cap keys) >= 3

\* line 223
MetricsLike(t) ==
    /\ Cardinality(Range(Headers(t)) \cap keys) >= 3
    /\ ~({S_w, S_d, S_l} \subseteq Range(Headers(t)))

\* lines 214-217: soup.find("table", id=tid)
FindById(elems, tid) == FirstOf({k \in DOMAIN elems : elems[k].id = tid})

\* lines 213-226: ts_tag
FindTeamStats(elems) ==
    IF FindById(elems, ts_ids[1]) # 0 THEN FindById(elems, ts_ids[1])
    ELSE IF FindById(elems, ts_ids[2]) # 0 THEN FindById(elems, ts_ids[2])
    ELSE FirstOf({k \in DOMAIN elems : MetricsLike(elems[k])})

\* lines 193-194: pd.read_html on the k-th table, which raises ValueError when
\* it finds no table to parse
table_to_df(elems, k) ==
    IF elems[k].parses
    THEN [rows  |-> elems[k].rows,
          cols  |-> Len(elems[k].thead),
          blank |-> elems[k].blank,
          dup   |-> 0,    \* pd.read_html renames a repeated label (Sh, Sh.1)
          at    |-> k]
    ELSE Raised

\* lines 187-191
tidy(x) == IF x = None THEN None ELSE Normalized(x, x.at)

\* most <table> elements of a document
MaxDetectTables == 2

\* id attributes: none, one with "standings" in it, the two of ts_ids
Id_none      == <<>>
Id_Standings == <<"L","e","a","g","u","e","_","S","t","a","n","d","i","n","g","s">>

TableIds == {Id_none, Id_Standings, ts_ids[1], ts_ids[2]}

\* header rows
T_standings == << <<"W">>, <<"D">>, <<"L">>, <<"P","t","s">> >>
T_points    == << <<" ","w"," ">>, <<"d">>, <<"l">>, <<"P","O","I","N","T","S">> >>
T_wdl       == << <<"W">>, <<"D">>, <<"L">> >>
T_stats3    == << <<"S","h">>, <<"S","o","T">>, <<"x","G">> >>
T_stats4    == << <<"x","G">>, <<"x","G","A">>, <<"G">>, <<"A","s","t">> >>
T_dup       == << <<"S","h">>, <<"S","h">>, <<"S","o","T">> >>
T_wdl_stats == << <<"W">>, <<"D">>, <<"L">>, <<"P","t","s">>,
                  <<"S","h">>, <<"S","o","T">>, <<"x","G">> >>

TableHeads ==
    {T_standings, T_points, T_wdl, T_stats3, T_stats4, T_dup, T_wdl_stats}

\* a <table> element: its id, its thead th cells, and whether pd.read_html
\* parses it; a parsed table has two rows, one of them empty in every column
DetectElems ==
    {[id |-> i, thead |-> h, parses |-> TRUE, rows |-> 2, blank |-> 1] :
        i \in TableIds, h \in TableHeads}
    \cup {[id |-> i, thead |-> h, parses |-> FALSE, rows |-> 0, blank |-> 0] :
             i \in TableIds, h \in {T_standings, T_stats4}}

DetectDocs == UNION {[1..n -> DetectElems] : n \in 0..MaxDetectTables}

\* lines 198-208: the standings table is looked for and parsed
DetectStandings ==
    /\ pc = "ds_start"
    /\ st_tag' = FindStandings(soup)
    /\ standings_df' = IF st_tag' # 0 THEN table_to_df(soup, st_tag') ELSE None
    /\ pc' = IF standings_df' = Raised THEN "ds_raised" ELSE "ds_teamstats"
    /\ UNCHANGED <<soup, ts_tag, teamstats_df>>
    /\ UNCHANGED <<flattenVars, selectVars, discoverVars>>

\* lines 210-227: the team statistics table is looked for and parsed
DetectTeamStats ==
    /\ pc = "ds_teamstats"
    /\ ts_tag' = FindTeamStats(soup)
    /\ teamstats_df' = IF ts_tag' # 0 THEN table_to_df(soup, ts_tag') ELSE None
    /\ pc' = IF teamstats_df' = Raised THEN "ds_raised" ELSE "ds_return"
    /\ UNCHANGED <<soup, st_tag, standings_df>>
    /\ UNCHANGED <<flattenVars, selectVars, discoverVars>>

\* line 229
DetectReturn ==
    /\ pc = "ds_return"
    /\ result' = <<tidy(standings_df), tidy(teamstats_df)>>
    /\ pc' = "ds_done"
    /\ UNCHANGED <<visible, hidden, main_df, comment_df, html>>
    /\ UNCHANGED <<flattenVars, discoverVars, detectVars>>

InitDetect ==
    /\ pc = "ds_start"
    /\ soup \in DetectDocs
    /\ st_tag = 0
    /\ standings_df = None
    /\ ts_tag = 0
    /\ teamstats_df = None
    /\ FlattenIdle
    /\ SelectIdle
    /\ DiscoverIdle

NextDetect == DetectStandings \/ DetectTeamStats \/ DetectReturn

SpecDetect == InitDetect /\ [][NextDetect]_vars

-----------------------------------------------------------------------------
(* Properties of flatten_and_normalize_columns                             *)

S__per90 == <<"_">> \o S_per90

Distinct(q) == \A j, k \in DOMAIN q : j # k => q[j] # q[k]

\* the first application, to a table with a two-level header
TwoLevelRun == pass = 1 /\ df.multi

\* the first application, to a table with a single-level header
OneLevelRun == pass = 1 /\ ~df.multi

\* C1: the field names of the table flatten_and_normalize_columns returns are
\* pairwise distinct, whatever the header of the input table
C1_UniqueFieldNames ==
    pc = "done" => Distinct(out.columns)

\* a two-level table with one base label under two different sections
\* has been normalized, and both columns are in the output
C1_Witness ==
    /\ pc = "done"
    /\ TwoLevelRun
    /\ \E j, k \in DOMAIN df.columns :
          /\ j < k
          /\ BaseLabel(df.columns[j]) = BaseLabel(df.columns[k])
          /\ SectLabel(df.columns[j]) # SectLabel(df.columns[k])
    /\ Len(out.columns) = Len(df.columns)

\* C2: on a two-level header the collision-resolution pass leaves no two
\* columns with the same name, so the final duplicate removal drops nothing
\* and the output has as many columns as the input
C2_NoColumnLost ==
    pc = "done" /\ TwoLevelRun =>
        /\ Distinct(names)
        /\ Len(out.columns) = Len(df.columns)

\* C7: on a two-level header every column whose normalized section label
\* contains "per90" is named with the suffix "_per90"
C7_Per90Suffix ==
    TwoLevelRun =>
        \A k \in DOMAIN names :
            Contains(sect_norm[k], S_per90) => EndsWith(names[k], S__per90)

\* the part of `name` after `pname` and an underscore
TagOf(name, pname) == SubSeq(name, Len(pname) + 2, Len(name))

\* C8: on a two-level header a column whose normalized section label does not
\* contain "per90" is named by its normalized base label, or by that label,
\* an underscore and a tag other than "per90"; its name ends with "_per90"
\* only if the normalized base label does
C8_NoPer90Acquired ==
    TwoLevelRun =>
        \A k \in DOMAIN names :
            ~Contains(sect_norm[k], S_per90) =>
                /\ \/ names[k] = prim[k]
                   \/ /\ StartsWith(names[k], prim[k] \o <<"_">>)
                      /\ TagOf(names[k], prim[k]) # S_per90
                /\ EndsWith(names[k], S__per90) => EndsWith(prim[k], S__per90)

\* a column outside every per90 section collided and was renamed with a tag
C8_Witness ==
    /\ pc = "done"
    /\ TwoLevelRun
    /\ \E k \in DOMAIN names :
          /\ ~Contains(sect_norm[k], S_per90)
          /\ names[k] # prim[k]

\* C9: applied to its own output, flatten_and_normalize_columns returns the
\* same table: same field names in the same order, same columns, same rows
C9_Idempotent ==
    pc = "done" /\ pass = 2 => out = first

Alnum == WordChars \ {"_"}

\* what position i of t contributes to the token: its character when that is
\* a letter or a digit, preceded by one underscore when it starts a word that
\* is not the first one
Emit(t, i) ==
    IF t[i] \notin Alnum THEN <<>>
    ELSE IF i > 1 /\ t[i - 1] \notin Alnum /\ \E j \in 1..(i - 1) : t[j] \in Alnum
         THEN <<"_", t[i]>>
         ELSE <<t[i]>>

RECURSIVE EmitUpTo(_, _)
EmitUpTo(t, i) == IF i = 0 THEN <<>> ELSE EmitUpTo(t, i - 1) \o Emit(t, i)

\* the token rule as C10 states it: trim, lowercase, "g+a" -> "g_plus_a",
\* "per 90 minutes" -> "per90", then the words of the label (its maximal runs
\* of letters and digits) joined by single underscores
TokenRule(label) ==
    LET t == Replace(Replace(Lower(Strip(label, Whitespace)), S_g_a, S_g_plus_a),
                     S_per_90_min, S_per90)
    IN  EmitUpTo(t, Len(t))

\* C10: for a single-level header each column is named by the token rule
\* applied to its label, and the names that occur once are the output's
C10_TokenRule ==
    OneLevelRun /\ pc \in {"finish", "done"} =>
        /\ names = [k \in DOMAIN df.columns |-> TokenRule(df.columns[k])]
        /\ pc = "done" /\ Distinct(names) => out.columns = names

\* the three examples of the claim, in one table
C10_Witness ==
    /\ pc = "done"
    /\ OneLevelRun
    /\ df.columns = <<L_Team, L_TeamName, L_GA>>
    /\ out.columns = << <<"t","e","a","m">>,
                        <<"t","e","a","m","_","n","a","m","e">>,
                        S_g_plus_a >>

\* a lowercase underscore-delimited token: lowercase letters, digits and
\* underscores only, no two underscores in a row, none at either end
IsToken(s) ==
    /\ \A k \in DOMAIN s : s[k] \in (Range(LowerChars) \cup Digits \cup {"_"})
    /\ \A k \in 1..(Len(s) - 1) : ~(s[k] = "_" /\ s[k + 1] = "_")
    /\ s # <<>> => s[1] # "_" /\ s[Len(s)] # "_"

\* C11: every field name of the table flatten_and_normalize_columns returns,
\* for a single-level or a two-level header, is a lowercase
\* underscore-delimited token, the names made by the per90 suffix and by
\* collision disambiguation included
C11_FieldNamesAreTokens ==
    pc = "done" /\ pass = 1 =>
        \A k \in DOMAIN out.columns : IsToken(out.columns[k])

\* the input column that output column j comes from: the leftmost one with
\* its name
SurvivingColumn(j) ==
    CHOOSE c \in DOMAIN names :
        /\ names[c] = out.columns[j]
        /\ \A d \in 1..(c - 1) : names[d] # names[c]

\* the input rows with a value in some surviving column
RowsWithValue ==
    {r \in DOMAIN df.data :
        \E j \in DOMAIN out.columns : df.data[r][SurvivingColumn(j)] # NA}

\* the i-th of them in input order
RowWithValue(i) ==
    CHOOSE r \in RowsWithValue : Cardinality({q \in RowsWithValue : q <= r}) = i

\* C12: the rows of the output are exactly the input rows that have a value
\* in at least one surviving column, in their input order and with their
\* cell values unchanged, and they are indexed 0..n-1 whatever the input
\* index was; the output has no more rows than the input
C12_RowsKeptInOrder ==
    pc = "done" =>
        /\ Len(out.data) = Cardinality(RowsWithValue)
        /\ \A i \in DOMAIN out.data : \A j \in DOMAIN out.columns :
              out.data[i][j] = df.data[RowWithValue(i)][SurvivingColumn(j)]
        /\ \A i \in DOMAIN out.data : Len(out.data[i]) = Len(out.columns)
        /\ out.index = [i \in 1..Len(out.data) |-> i - 1]
        /\ Len(out.data) <= Len(df.data)

\* a table whose first row was dropped, for its only value is in a column
\* that was discarded, and whose second row became row 0
C12_Witness ==
    /\ pc = "done"
    /\ Len(out.columns) < Len(df.columns)
    /\ Len(df.data) = 2
    /\ \E c \in DOMAIN df.data[1] : df.data[1][c] # NA
    /\ df.index = <<5, 10>>
    /\ out.data = << <<df.data[2][1]>> >>
    /\ out.data[1][1] # NA
    /\ out.index = <<0>>

\* C13: flatten_and_normalize_columns never raises on a well-formed table,
\* and the empty table, of no columns and no rows, comes back empty
C13_NeverRaisesEmptyStaysEmpty ==
    /\ pc # "raised"
    /\ out # Raised
    /\ pc = "done" /\ df.columns = <<>> /\ df.data = <<>>
          => out.columns = <<>> /\ out.data = <<>> /\ out.index = <<>>

\* the empty table was normalized and came back empty
C13_Witness ==
    /\ pc = "done"
    /\ pass = 1
    /\ df = EmptyTable
    /\ out.columns = <<>>
    /\ out.data = <<>>

\* C22: a column of a single-level header whose label reads "g+apk", in any
\* letter case and with any surrounding blanks, is named "g_plus_a_pk"
C22_GApkToken ==
    OneLevelRun /\ pc \in {"finish", "done"} =>
        \A k \in DOMAIN df.columns :
            Lower(Strip(df.columns[k], Whitespace)) = S_g_apk
                => names[k] = S_g_plus_a_pk

\* the tag the rule of collision resolution gives a normalized section label
TagRule(sname) ==
    CASE sname = S_playing_time -> S_pt
      [] sname = S_performance  -> S_perf
      [] sname = S_expected     -> S_exp
      [] sname = S_progression  -> S_prog
      [] sname = S_per90        -> S_per90
      [] OTHER -> IF sname = <<>> THEN S_sec
                  ELSE [i \in 1..(IF Len(sname) < 6 THEN Len(sname) ELSE 6) |-> sname[i]]

\* the candidate name of column k: its normalized base label, with "_per90"
\* after it when its normalized section label contains "per90"
CandidateOf(k) ==
    IF Contains(sect_norm[k], S_per90) THEN prim[k] \o S__per90 ELSE prim[k]

\* the names assigned to the columns on the left of column k
AssignedBefore(k) == {names[j] : j \in 1..(k - 1)}

\* C23: on a two-level header a column whose candidate name is already
\* assigned is named by its normalized base label, an underscore and a tag:
\* pt, perf, exp, prog or per90 when its normalized section label is exactly
\* playing_time, performance, expected, progression or per90, otherwise the
\* first six characters of that label, or sec when the label is empty; a
\* column whose candidate name is not yet assigned keeps it
C23_CollisionTag ==
    TwoLevelRun =>
        \A k \in DOMAIN names :
            names[k] = IF CandidateOf(k) \in AssignedBefore(k)
                       THEN prim[k] \o <<"_">> \o TagRule(sect_norm[k])
                       ELSE CandidateOf(k)

\* three columns Gls, two under Playing Time and one under Expected: the
\* second is named gls_pt and the third gls_exp
C23_Witness ==
    /\ pc = "done"
    /\ TwoLevelRun
    /\ df.columns = << <<L_PlayingTime, L_Gls>>, <<L_PlayingTime, L_Gls>>,
                       <<L_Expected, L_Gls>> >>
    /\ names = << <<"g","l","s">>, <<"g","l","s","_","p","t">>,
                  <<"g","l","s","_","e","x","p">> >>

\* one iteration of the pass over a two-level header: the name of column k
\* is appended to the names of the columns on its left
NamesColumn(k) ==
    /\ pc = "loop"
    /\ df.multi
    /\ k = Len(names) + 1
    /\ Len(names') = k

\* the columns on the left of k whose candidate name was already assigned
\* when they were reached
CollidedBefore(k) == {j \in 1..(k - 1) : CandidateOf(j) \in AssignedBefore(j)}

\* what one iteration of the pass does to the names and to the set `seen`
FirstComeFinal ==
    \A k \in DOMAIN prim :
        NamesColumn(k) =>
            /\ seen = {names[j] : j \in DOMAIN names}
            /\ \A j \in DOMAIN names : names'[j] = names[j]
            /\ seen' = seen \cup {names'[k]}
            /\ CandidateOf(k) \in seen =>
                   /\ names'[k] = prim[k] \o <<"_">> \o TagRule(sect_norm[k])
                   /\ \A j \in CollidedBefore(k) :
                          prim[j] = prim[k] /\ sect_norm[j] = sect_norm[k]
                              => names'[k] = names[j]
            /\ CandidateOf(k) \notin seen => names'[k] = CandidateOf(k)

InnermostReal(parts) ==
    IF IsRealLabel(parts[2]) THEN parts[2]
    ELSE IF IsRealLabel(parts[1]) THEN parts[1] ELSE <<>>

\* C25: in a two-level header the base label of a column is its innermost
\* real label, and a column whose outer label is empty, blank or an
\* "unnamed" placeholder has an empty section label: its normalized section
\* label is empty, so its candidate name is its normalized base label without
\* a "_per90" suffix, and when that collides it is named <base>_sec
C25_PlaceholderOuterNoSection ==
    TwoLevelRun /\ pc \in {"loop", "finish", "done"} =>
        \A k \in DOMAIN df.columns :
            /\ prim[k] = norm(InnermostReal(df.columns[k]))
            /\ ~IsRealLabel(df.columns[k][1]) =>
                   /\ sect_norm[k] = <<>>
                   /\ k \in DOMAIN names =>
                          names[k] = IF prim[k] \in AssignedBefore(k)
                                     THEN prim[k] \o <<"_">> \o S_sec
                                     ELSE prim[k]

\* the columns whose field name was given to a column on their left
Discarded == {c \in DOMAIN names : \E d \in 1..(c - 1) : names[d] = names[c]}

\* the columns that are the leftmost of their field name
Leftmost == DOMAIN names \ Discarded

\* the j-th of them from the left
NthLeftmost(j) ==
    CHOOSE c \in Leftmost : Cardinality({d \in Leftmost : d <= c}) = j

\* the values of the output table; a value of the table given to the first
\* application names its row and its column
OutValues == {out.data[i][j] : i \in DOMAIN out.data, j \in DOMAIN out.columns}

\* C26: of the columns with one field name the leftmost is kept with its
\* data and the later ones are discarded; a row is in the output exactly
\* when it has a value in a surviving column, so a row whose only values
\* lie in discarded columns is removed
C26_KeepLeftmostColumn ==
    pass = 1 /\ pc = "done" =>
        /\ Len(out.columns) = Cardinality(Leftmost)
        /\ \A j \in DOMAIN out.columns : out.columns[j] = names[NthLeftmost(j)]
        /\ \A r \in DOMAIN df.data : \A c \in DOMAIN names :
              df.data[r][c] # NA =>
                  /\ c \in Discarded => df.data[r][c] \notin OutValues
                  /\ c \in Leftmost =>
                         \E i \in DOMAIN out.data : \E j \in DOMAIN out.columns :
                             /\ NthLeftmost(j) = c
                             /\ out.data[i][j] = df.data[r][c]
        /\ \A r \in DOMAIN df.data :
              (\A c \in Leftmost : df.data[r][c] = NA) =>
                  \A i \in DOMAIN out.data : \A j \in DOMAIN out.columns :
                      out.data[i][j] = NA \/ out.data[i][j][1] # r
        /\ \A i \in DOMAIN out.data : \E j \in DOMAIN out.columns :
              out.data[i][j] # NA

\* two columns Gls under Per 90 Minutes, both named gls_per90: the first row
\* has its only value in the second column and is removed, the second row
\* has a value in each and keeps the one of the first column
C26_Witness ==
    /\ pc = "done"
    /\ df.columns = << <<L_Per90, L_Gls>>, <<L_Per90, L_Gls>> >>
    /\ names[1] = names[2]
    /\ df.data = << <<NA, <<1, 2>>>>, << <<2, 1>>, <<2, 2>> >> >>
    /\ out.columns = <<names[1]>>
    /\ out.data = << << <<2, 1>> >> >>

\* C29: whenever the candidate name of a column of a two-level header is
\* already assigned, the name the column gets differs from that candidate,
\* whatever its section label, one that normalizes to exactly per90 included
C29_DisambiguatedDiffers ==
    TwoLevelRun =>
        \A k \in DOMAIN names :
            CandidateOf(k) \in AssignedBefore(k) => names[k] # CandidateOf(k)

-----------------------------------------------------------------------------
(* Properties of biggest_table                                             *)

\* the outcome of a discovery pass is a table with at least one row
HasRows(x) == x # None /\ x # Raised /\ x.rows # 0

\* C3: when the visible result has 1 to 99 rows and the hidden result has
\* strictly more rows, biggest_table returns the hidden table
C3_SmallVisibleLargerHidden ==
    pc = "bt_done" /\ HasRows(visible) /\ visible.rows < 100
                   /\ HasRows(hidden) /\ hidden.rows > visible.rows
        => result = hidden

\* a visible table of 99 rows lost to a hidden one of 100
C3_Witness ==
    /\ pc = "bt_done"
    /\ HasRows(visible) /\ visible.rows = 99
    /\ HasRows(hidden) /\ hidden.rows = 100
    /\ result = hidden

\* C4: when the visible result has rows, and it has 100 rows or more or the
\* hidden result has no more rows than it, biggest_table returns the visible
\* table
C4_VisibleKept ==
    pc = "bt_done" /\ HasRows(visible)
                   /\ ~(visible.rows < 100 /\ HasRows(hidden)
                                           /\ hidden.rows > visible.rows)
        => result = visible

\* a visible table of exactly 100 rows won over a longer and wider hidden one
C4_Witness ==
    /\ pc = "bt_done"
    /\ HasRows(visible) /\ visible.rows = 100
    /\ HasRows(hidden) /\ hidden.rows > 100 /\ hidden.cols > visible.cols
    /\ result = visible

\* C5: when visible discovery yields no table with rows and hidden recovery
\* yields one, biggest_table returns the hidden table
C5_HiddenWhenNoVisible ==
    pc = "bt_done" /\ ~HasRows(visible) /\ HasRows(hidden) => result = hidden

\* visible discovery returned a table of zero rows, and the hidden table of a
\* single row was returned
C5_Witness ==
    /\ pc = "bt_done"
    /\ visible # None /\ visible # Raised /\ visible.rows = 0
    /\ HasRows(hidden) /\ hidden.rows = 1
    /\ result = hidden

\* C6: biggest_table never raises, and when neither pass yields a table with
\* rows it returns the empty table, of no rows and no columns
C6_EmptyNeverRaises ==
    /\ pc # "bt_raised"
    /\ pc = "bt_done" /\ ~HasRows(visible) /\ ~HasRows(hidden)
          => result = EmptyFrame /\ result.rows = 0 /\ result.cols = 0

\* both passes raised and biggest_table returned the empty table
C6_Witness ==
    /\ pc = "bt_done"
    /\ visible = Raised
    /\ hidden = Raised
    /\ result = EmptyFrame

-----------------------------------------------------------------------------
(* Properties of the two discovery passes                                  *)

\* the elements of the list q that parse to a table with at least one row
WithRows(q) == {k \in DOMAIN q : q[k].parses /\ q[k].rows >= 1}

\* the row count of the table discovery makes of element e, the table as
\* line 25 leaves it
RowCount(e) == e.rows - e.blank

\* its column count, likewise
ColCount(e) == e.cols - e.dup

\* (r1, c1) comes before (r2, c2) in lexicographic order
PairLess(r1, c1, r2, c2) == r1 < r2 \/ (r1 = r2 /\ c1 < c2)

\* x is the table of one element of q that parses to a table with rows, and
\* no such element of q gives a table with a greater (row count, column
\* count) pair; b is the number of the comment block, 0 for the page
IsLargestOf(x, q, b) ==
    /\ x # None
    /\ \E k \in WithRows(q) :
          /\ x = [rows |-> RowCount(q[k]), cols |-> ColCount(q[k]), at |-> <<b, k>>]
          /\ \A j \in WithRows(q) :
                ~PairLess(RowCount(q[k]), ColCount(q[k]),
                          RowCount(q[j]), ColCount(q[j]))

\* C14: visible discovery returns, among the <table> elements that parse to
\* a table with at least one row, one whose (row count, column count) pair
\* is lexicographically greatest, the row count deciding first and the
\* column count breaking ties between equal row counts (the counts of the
\* tables as discovery ranks them, normalized at line 25); it returns None
\* when no element parses to a table with rows
C14_VisibleLargest ==
    pc = "ex_done" =>
        IF WithRows(page_tables) = {} THEN visible = None
        ELSE IsLargestOf(visible, page_tables, 0)

\* a page with a table of 1 row and 2 columns followed by one of 2 rows and
\* 1 column: the second was returned
C14_Witness ==
    /\ pc = "ex_done"
    /\ Len(page_tables) = 2
    /\ page_tables[1] = [parses |-> TRUE, rows |-> 1, cols |-> 2, blank |-> 0, dup |-> 0]
    /\ page_tables[2] = [parses |-> TRUE, rows |-> 2, cols |-> 1, blank |-> 0, dup |-> 0]
    /\ visible = [rows |-> 2, cols |-> 1, at |-> <<0, 2>>]

\* t occurs in s at some place, letter case ignored
ContainsAnyCase(s, t) ==
    \E i \in 1..(Len(s) - Len(t) + 1) :
        \A j \in 1..Len(t) : LowerChar(s[i + j - 1]) = LowerChar(t[j])

\* the tables collected from the comment block examined last
FromLastBlock == {k \in DOMAIN comment_tables : comment_tables[k].at[1] = nblocks}

\* C15: hidden recovery considers only the comment blocks that contain
\* "<table" in any letter case; of each such block it takes the largest table
\* by the rule of visible discovery, provided it has rows; it returns one of
\* the tables taken whose (row count, column count) pair is greatest, and
\* None when no block gave a table with rows
C15_HiddenLargest ==
    /\ pc \in {"hc_loop", "hc_done"} /\ nblocks > 0 =>
          IF /\ ContainsAnyCase(comment_block.markup, S_table)
             /\ ~comment_block.broken
             /\ \E k \in WithRows(comment_block.tables) :
                    RowCount(comment_block.tables[k]) > 0
          THEN /\ FromLastBlock = {Len(comment_tables)}
               /\ IsLargestOf(comment_tables[Len(comment_tables)],
                              comment_block.tables, nblocks)
          ELSE FromLastBlock = {}
    /\ pc = "hc_done" =>
          IF comment_tables = <<>> THEN hidden = None
          ELSE \E k \in DOMAIN comment_tables :
                  /\ hidden = comment_tables[k]
                  /\ \A j \in DOMAIN comment_tables :
                        ~PairLess(hidden.rows, hidden.cols,
                                  comment_tables[j].rows, comment_tables[j].cols)

\* two comment blocks gave a table each; the second block is written with
\* <TABLE> tags and holds two tables, and its larger table was returned
C15_Witness ==
    /\ pc = "hc_done"
    /\ nblocks = 2
    /\ Len(comment_tables) = 2
    /\ comment_block.markup = M_TABLE
    /\ Len(comment_block.tables) = 2
    /\ WithRows(comment_block.tables) = {1, 2}
    /\ hidden = comment_tables[2]
    /\ comment_tables[1].rows < hidden.rows

\* one step of a discovery pass in which a parse may have failed
FailedParseSkipped ==
    /\ pc = "ex_start" /\ pc' = "ex_done"
        /\ (\E k \in DOMAIN page_tables : ~page_tables[k].parses)
        /\ WithRows(page_tables) # {}
        => /\ visible' # None
           /\ visible' # Raised
           /\ IsLargestOf(visible', page_tables, 0)
    /\ pc = "hc_loop" /\ nblocks' = nblocks + 1 /\ comment_block'.broken
        => /\ comment_tables' = comment_tables
           /\ pc' = "hc_loop"
    /\ pc = "hc_loop" /\ pc' = "hc_done" /\ comment_tables # <<>>
        => /\ hidden' # None
           /\ hidden' # Raised
           /\ \E k \in DOMAIN comment_tables :
                 /\ hidden' = comment_tables[k]
                 /\ \A j \in DOMAIN comment_tables :
                       ~PairLess(comment_tables[k].rows, comment_tables[k].cols,
                                 comment_tables[j].rows, comment_tables[j].cols)

\* C21: in visible discovery a <table> element whose parse fails is skipped
\* and the scan goes on, and so is in hidden recovery a comment block whose
\* parse fails: the tables collected before it are kept and the loop goes
\* on; whenever another element or block parses to a table with rows the
\* result is the largest of the candidates that did parse, never None and
\* never an exception
C21_FailedParseSkipped == [][FailedParseSkipped]_vars

\* a page whose first <table> element fails to parse and whose second one
\* parses to a table with a row: the second is returned
C21_Witness ==
    /\ pc = "ex_done"
    /\ Len(page_tables) = 2
    /\ ~page_tables[1].parses
    /\ page_tables[2].parses /\ page_tables[2].rows - page_tables[2].blank >= 1
    /\ visible # None
    /\ visible.at = <<0, 2>>

\* the elements of q that parse to a table with rows of the shape of x
SameShape(x, q) ==
    {k \in WithRows(q) : RowCount(q[k]) = x.rows /\ ColCount(q[k]) = x.cols}

\* C30: of several candidates with the greatest (row count, column count)
\* pair, visible discovery returns the first in document order, and hidden
\* recovery the one of the earliest comment block, which is the first of its
\* block; a table is known here by its shape and its place only, so nothing
\* else of it enters the choice
C30_TiesFirstInDocumentOrder ==
    /\ pc = "ex_done" /\ visible # None =>
          \A j \in SameShape(visible, page_tables) : visible.at[2] <= j
    /\ pc \in {"hc_loop", "hc_done"} /\ FromLastBlock # {} =>
          \A j \in SameShape(comment_tables[Len(comment_tables)], comment_block.tables) :
              comment_tables[Len(comment_tables)].at[2] <= j
    /\ pc = "hc_done" /\ hidden # None =>
          \A j \in DOMAIN comment_tables :
              comment_tables[j].rows = hidden.rows /\ comment_tables[j].cols = hidden.cols
                  => hidden.at[1] <= comment_tables[j].at[1]

\* two comment blocks gave tables of the same greatest shape, the second
\* block holding two of them, and the table of the first block was returned
C30_Witness ==
    /\ pc = "hc_done"
    /\ nblocks = 2
    /\ Len(comment_tables) = 2
    /\ comment_tables[1].rows = comment_tables[2].rows
    /\ comment_tables[1].cols = comment_tables[2].cols
    /\ Cardinality(SameShape(comment_tables[2], comment_block.tables)) = 2
    /\ comment_tables[2].at = <<2, 1>>
    /\ hidden = comment_tables[1]
    /\ hidden.at[1] = 1

\* a <table> element as pd.read_html gives it, before any normalization
Raw(e, at) == [rows |-> e.rows, cols |-> e.cols, blank |-> e.blank,
               dup |-> e.dup, at |-> at]

RECURSIVE RawCandidates(_, _, _)
\* the tables with rows among the first k elements of `tables`, as parsed
RawCandidates(tables, b, k) ==
    IF k = 0 THEN <<>>
    ELSE IF tables[k].parses /\ tables[k].rows # 0
         THEN Append(RawCandidates(tables, b, k - 1), Raw(tables[k], <<b, k>>))
         ELSE RawCandidates(tables, b, k - 1)

\* the largest of them by (row count, column count) as parsed
RawDiscovery(tables, b) == LargestOrNone(RawCandidates(tables, b, Len(tables)))

RECURSIVE RawBlockWinners(_, _)
\* the largest table as parsed of each of the first k comment blocks that
\* has table markup and parses
RawBlockWinners(blocks, k) ==
    IF k = 0 THEN <<>>
    ELSE LET b == blocks[k]
             t == IF ContainsAnyCase(b.markup, S_table) /\ ~b.broken
                  THEN RawDiscovery(b.tables, k) ELSE None
         IN  IF t # None THEN Append(RawBlockWinners(blocks, k - 1), t)
             ELSE RawBlockWinners(blocks, k - 1)

RawRecovery(blocks) == LargestOrNone(RawBlockWinners(blocks, Len(blocks)))

\* the raw table the selection rule of section 4.3 picks, None for the empty
\* table
RawWinner(v, h) ==
    IF v = None THEN h
    ELSE IF v.rows < 100 /\ h # None /\ h.rows > v.rows THEN h ELSE v

\* the pipeline on raw candidates: discovery and recovery rank the tables as
\* parsed, the selection rule reads the raw winners, and only the table it
\* picks is normalized
RawPipeline(doc) ==
    LET w == RawWinner(RawDiscovery(doc.tables, 0), RawRecovery(doc.blocks))
    IN  IF w = None THEN EmptyFrame ELSE Normalized(w, w.at)

\* C27: for every document, biggest_table returns the table that the
\* pipeline on raw candidates gives: rank the tables as parsed by (row count,
\* column count) in discovery and in recovery, apply the selection rule to
\* the raw winners, normalize only the table selected
C27_RawPipelineEquivalent ==
    pc = "bt_done" /\ html # None => result = RawPipeline(html)

-----------------------------------------------------------------------------
(* Properties of detect_standings_and_teamstats                            *)

\* table t has a header cell that reads `word`, letter case and surrounding
\* blanks ignored
HasHeader(t, word) ==
    \E k \in DOMAIN t.thead : Lower(Strip(t.thead[k], Whitespace)) = word

\* the tables whose id contains "standings" in any letter case
StandingsById ==
    {k \in DOMAIN soup : ContainsAnyCase(soup[k].id, S_standings)}

\* the tables whose header cells include w, d, l and pts or points
StandingsByHeaders ==
    {k \in DOMAIN soup :
        /\ HasHeader(soup[k], S_w) /\ HasHeader(soup[k], S_d) /\ HasHeader(soup[k], S_l)
        /\ HasHeader(soup[k], S_pts) \/ HasHeader(soup[k], S_points)}

\* the first table of the set in document order, 0 when there is none
Earliest(positions) ==
    IF positions = {} THEN 0
    ELSE CHOOSE k \in positions : \A j \in positions : k <= j

\* C16: the table detect_standings_and_teamstats takes for the standings is
\* the first table in document order whose id contains "standings" (any
\* letter case), whatever its headers; when no table has such an id, the
\* first table whose header cells include w, d, l and pts or points; the
\* standings result is that table, and None when there is neither
C16_StandingsDetection ==
    LET chosen == IF StandingsById # {} THEN Earliest(StandingsById)
                  ELSE Earliest(StandingsByHeaders)
    IN  /\ pc \in {"ds_teamstats", "ds_return", "ds_done", "ds_raised"} =>
              st_tag = chosen
        /\ pc = "ds_done" =>
              IF chosen = 0 THEN result[1] = None
              ELSE result[1] # None /\ result[1].at = chosen

\* a document whose first table has standings headers and whose second
\* table has the id League_Standings and statistics headers: the second one
\* is the standings result
C16_Witness ==
    /\ pc = "ds_done"
    /\ Len(soup) = 2
    /\ soup[1].id = Id_none /\ soup[1].thead = T_standings
    /\ soup[2].id = Id_Standings /\ soup[2].thead = T_stats4
    /\ result[1] # None
    /\ result[1].at = 2

\* no table has one of the two ids of team statistics
NoTeamStatsId == \A k \in DOMAIN soup : \A n \in DOMAIN ts_ids : soup[k].id # ts_ids[n]

\* the number of distinct header cells of table t in the key-metric vocabulary
KeyMetrics(t) == Cardinality({m \in keys : HasHeader(t, m)})

\* the tables with at least 3 such headers whose header cells do not
\* include all of w, d and l
MetricTables ==
    {k \in DOMAIN soup :
        /\ KeyMetrics(soup[k]) >= 3
        /\ ~(HasHeader(soup[k], S_w) /\ HasHeader(soup[k], S_d) /\ HasHeader(soup[k], S_l))}

\* C17 as stated: when no table has the id stats_squads_standard_for or
\* stats_squads_standard, the team statistics result is the table with the
\* greatest number of distinct key-metric headers among the tables with at
\* least 3 of them whose headers do not include all of w, d and l, and None
\* when no table qualifies
C17_GreatestOverlap ==
    pc \in {"ds_return", "ds_done"} /\ NoTeamStatsId =>
        IF MetricTables = {} THEN ts_tag = 0
        ELSE /\ ts_tag \in MetricTables
             /\ \A j \in MetricTables : KeyMetrics(soup[j]) <= KeyMetrics(soup[ts_tag])

\* C17 amended: when no table has the id stats_squads_standard_for or
\* stats_squads_standard, the team statistics result is the first table in
\* document order among the tables with at least 3 distinct key-metric
\* headers whose headers do not include all of w, d and l, and None when no
\* table qualifies
C17_FirstQualifying ==
    /\ pc \in {"ds_return", "ds_done"} /\ NoTeamStatsId =>
          ts_tag = Earliest(MetricTables)
    /\ pc = "ds_done" /\ NoTeamStatsId =>
          IF MetricTables = {} THEN result[2] = None
          ELSE result[2] # None /\ result[2].at = Earliest(MetricTables)

\* a table with 3 key-metric headers comes before one with 4, and the first
\* is the team statistics result
C17_Witness ==
    /\ pc = "ds_done"
    /\ NoTeamStatsId
    /\ Len(soup) = 2
    /\ KeyMetrics(soup[1]) = 3
    /\ KeyMetrics(soup[2]) = 4
    /\ MetricTables = {1, 2}
    /\ result[2] # None
    /\ result[2].at = 1

\* table t has all of w, d and l among its header cells
HasWDL(t) == HasHeader(t, S_w) /\ HasHeader(t, S_d) /\ HasHeader(t, S_l)

\* C28: the metric-overlap fallback, which runs when no table has one of the
\* team statistics ids, never selects a table whose header cells include all
\* of w, d and l, however many key-metric headers it has, and never a table
\* with fewer than 3 distinct key-metric headers
C28_FallbackExcludes ==
    /\ pc \in {"ds_return", "ds_done"} /\ NoTeamStatsId /\ ts_tag # 0 =>
          ~HasWDL(soup[ts_tag]) /\ KeyMetrics(soup[ts_tag]) >= 3
    /\ pc = "ds_done" /\ NoTeamStatsId /\ result[2] # None =>
          ~HasWDL(soup[result[2].at]) /\ KeyMetrics(soup[result[2].at]) >= 3

\* a table with w, d, l and 3 key metrics was passed over for the table
\* after it, which has 3 key metrics only
C28_Witness ==
    /\ pc = "ds_done"
    /\ NoTeamStatsId
    /\ Len(soup) = 2
    /\ HasWDL(soup[1]) /\ KeyMetrics(soup[1]) >= 3
    /\ soup[2].thead = T_stats3
    /\ ts_tag = 2
    /\ result[2] # None
    /\ result[2].at = 2

\* C18: the standings result and the team statistics result never come from
\* the same table element
C18_DistinctElements ==
    /\ pc \in {"ds_return", "ds_done"} => ~(st_tag # 0 /\ st_tag = ts_tag)
    /\ pc = "ds_done" /\ result[1] # None /\ result[2] # None =>
          result[1].at # result[2].at

\* C19: detect_standings_and_teamstats never raises; when the table taken
\* for a result cannot be parsed that result is None and the other result is
\* still computed
C19_NeverRaises ==
    /\ pc # "ds_raised"
    /\ pc = "ds_done" /\ st_tag # 0 /\ ~soup[st_tag].parses => result[1] = None
    /\ pc = "ds_done" /\ ts_tag # 0 /\ ~soup[ts_tag].parses => result[2] = None

=============================================================================
